---- MODULE Spec2Model ----
(***************************************************************************)
(* Model of prompts.py: the MOSAIC_SYSTEM_PROMPT text and the five         *)
(* functions that return it, alone or followed by an addendum built from   *)
(* the caller's arguments.                                                 *)
(*                                                                         *)
(* A text is a sequence of tokens.  A token is a string: a piece of a      *)
(* literal of the source (a heading, a label, a phrase that the claims     *)
(* look for) or one character of a caller-supplied string.  Concatenation  *)
(* of texts is \o and "contains as a contiguous substring" is Contains.    *)
(***************************************************************************)
EXTENDS Integers, Sequences, FiniteSets, TLC

\* ------------------------------------------------------------------ bounds
\* Longest caller string enumerated for topic, document_type,
\* task_description and context_description.
MaxStrLen == 2
\* Longest enumerated string for context_type / context_structure, next to
\* the named samples.
MaxShortLen == 1
\* How many characters beyond the preview limit the longest preview has.
MaxOver == 2
\* How far around each length threshold the enumerated lengths reach.
Spread == 1
\* How many calls of get_system_prompt one behaviour counts.
MaxBaseCalls == 2

\* --------------------------------------------------------- program constants
\* prompts.py:869   if context_length < 500000
SmallLimit == 500000
\* prompts.py:871   elif context_length < 2000000
MediumLimit == 2000000
\* prompts.py:886   context_preview[:500]
PreviewLimit == 500

\* ------------------------------------------------------------------ values
\* A Python value that an argument or a result can hold.  "omitted" is not a
\* Python value: it marks a parameter the call does not pass.
StrV(s) == [kind |-> "str", chars |-> s, val |-> 0]
IntV(n) == [kind |-> "int", chars |-> <<>>, val |-> n]
None == [kind |-> "none", chars |-> <<>>, val |-> 0]
Omitted == [kind |-> "omitted", chars |-> <<>>, val |-> 0]
NoResult == [kind |-> "noresult", chars |-> <<>>, val |-> 0]

Min(a, b) == IF a < b THEN a ELSE b

\* Mutant: the slice keeps one character more.
Slice_OneMore(s, n) == SubSeq(s, 1, Min(n + 1, Len(s)))

\* s[:n] for n >= 0
Slice(s, n) == SubSeq(s, 1, Min(n, Len(s)))

\* pat in text
Contains(text, pat) ==
    \E i \in 0..(Len(text) - Len(pat)) : SubSeq(text, i + 1, i + Len(pat)) = pat

\* text.startswith(pre)
StartsWith(text, pre) ==
    /\ Len(pre) <= Len(text)
    /\ SubSeq(text, 1, Len(pre)) = pre

\* text.find(pat) counted from 1; 0 when pat does not occur
Find(text, pat) ==
    IF Contains(text, pat)
    THEN 1 + CHOOSE i \in 0..(Len(text) - Len(pat)) :
                /\ SubSeq(text, i + 1, i + Len(pat)) = pat
                /\ \A j \in 0..(i - 1) : SubSeq(text, j + 1, j + Len(pat)) # pat
    ELSE 0

\* All sequences over S of length at most n
RECURSIVE StringsOfLen(_, _)
StringsOfLen(S, n) ==
    IF n = 0 THEN {<<>>}
    ELSE {Append(s, c) : s \in StringsOfLen(S, n - 1), c \in S}

Strings(S, n) == UNION {StringsOfLen(S, k) : k \in 0..n}

\* ------------------------------------------------------------ the Template
\* MOSAIC_SYSTEM_PROMPT, abridged to its headings and to every line that
\* names a strategy, an approach or a pattern; the tokens keep the source's
\* wording and order.  It is a plain (not f-) string: its braces are text.
MOSAIC_SYSTEM_PROMPT == <<
    "# Mosaic RLM System Prompt", "\n\n",
    "## Environment Capabilities", "\n\n",
    "### 1. Python REPL", "\n",
    "### 2. Memory System", "\n",
    "### 3. Recursive LLM Queries", "\n",
    "### 4. Standard Python Functions", "\n",
    "## Core Principles", "\n\n",
    "### 1. Execute, Don't Describe", "\n",
    "## Context Processing Strategies", "\n\n",
    "### ", "Strategy 1", ": Small Context (< 500K characters)", "\n",
    "### ", "Strategy 2", ": Medium Context (500K - 2M characters)", "\n",
    "**Approach**: ", "Chunk and aggregate", "\n",
    "### ", "Strategy 3", ": Large Context (> 2M characters)", "\n",
    "**Approach**: ", "Targeted search", " and selective processing", "\n",
    "### ", "Strategy 4", ": Structured Content (Markdown, JSON, Code)", "\n",
    "**Approach**: ", "Structure-aware chunking", "\n",
    "### ", "Strategy 5", ": Iterative Reading", "\n",
    "## Task Patterns", "\n\n",
    "### ", "Pattern A", ": Simple Questions", "\n",
    "### ", "Pattern B", ": Document/Context Analysis", "\n",
    "print(f\"Context length: {context_len} characters\")", "\n",
    "    # ", "Strategy 1", ": ", "Direct processing", "\n",
    "    # ", "Strategy 2", ": ", "Chunk and aggregate", "\n",
    "    # (See ", "Strategy 2", " code above)", "\n",
    "    # ", "Strategy 3", ": ", "Targeted search", "\n",
    "    # (See ", "Strategy 3", " code above)", "\n",
    "### ", "Pattern C", ": Multi-Step Tasks", "\n",
    "### ", "Pattern D", ": Research & Writing", "\n",
    "### ", "Pattern E", ": Code Analysis/Generation", "\n",
    "    aspects = ['Architecture', 'Code Quality', 'Potential Issues']", "\n",
    "### ", "Pattern F", ": Information Aggregation", "\n",
    "## Special Case Handling", "\n\n",
    "        # Use ", "Strategy 1", "\n",
    "        # Use ", "Strategy 2", "\n",
    "        # Use ", "Strategy 3", "\n",
    "## Output Format", "\n\n",
    "## Critical Rules", "\n\n",
    "## Example: Complete Task Execution", "\n\n",
    "    {findings}", "\n",
    "    FINAL(final_analysis)", "\n",
    "Remember: **Execute, don't describe. Show your work. Be efficient. Verify results.**",
    "\n" >>

\* ------------------------------------------------------------- formatting
DigitChar == <<"0", "1", "2", "3", "4", "5", "6", "7", "8", "9">>

\* str(n) for n >= 0, one token per digit
RECURSIVE Digits(_)
Digits(n) ==
    IF n < 10 THEN <<DigitChar[n + 1]>>
    ELSE Append(Digits(n \div 10), DigitChar[(n % 10) + 1])

\* The "," of the format spec: a comma before every group of three digits
\* counted from the right.
RECURSIVE GroupThousands(_)
GroupThousands(ds) ==
    IF Len(ds) <= 3 THEN ds
    ELSE GroupThousands(SubSeq(ds, 1, Len(ds) - 3))
            \o <<",">> \o SubSeq(ds, Len(ds) - 2, Len(ds))

\* Mutant: the format spec without its ",".
FormatComma_NoGrouping(n) ==
    IF n < 0 THEN <<"-">> \o Digits(0 - n) ELSE Digits(n)

\* format(n, ",") of an int: the sign, then the grouped digits of |n|
FormatComma(n) ==
    IF n < 0 THEN <<"-">> \o GroupThousands(Digits(0 - n))
    ELSE GroupThousands(Digits(n))

\* format(v, "") as an f-string field {v} applies it: a str is inserted as it
\* is, None becomes the four characters None, an int its decimal digits.
Format(v) ==
    CASE v.kind = "str" -> v.chars
      [] v.kind = "none" -> <<"N", "o", "n", "e">>
      [] v.kind = "int" ->
            IF v.val < 0 THEN <<"-">> \o Digits(0 - v.val) ELSE Digits(v.val)

\* str.lower() on the letters the model's strings are made of
LowerChar(c) ==
    CASE c = "A" -> "a" [] c = "C" -> "c" [] c = "D" -> "d" [] c = "E" -> "e"
      [] c = "H" -> "h" [] c = "J" -> "j" [] c = "K" -> "k" [] c = "L" -> "l"
      [] c = "M" -> "m" [] c = "N" -> "n" [] c = "O" -> "o" [] c = "R" -> "r"
      [] c = "S" -> "s" [] c = "T" -> "t" [] c = "W" -> "w" [] c = "X" -> "x"
      [] OTHER -> c

Lower(s) == [i \in 1..Len(s) |-> LowerChar(s[i])]

\* ['markdown', 'json', 'xml', 'html', 'code']
StructuredTypes == {
    <<"m", "a", "r", "k", "d", "o", "w", "n">>,
    <<"j", "s", "o", "n">>,
    <<"x", "m", "l">>,
    <<"h", "t", "m", "l">>,
    <<"c", "o", "d", "e">> }

\* ------------------------------------------------------------------- state
VARIABLES
    template,   \* the module global MOSAIC_SYSTEM_PROMPT
    inputs,     \* the arguments the caller passes, by parameter name
    fn,         \* the function of the latest call ("none" before any call)
    result,     \* what the latest call returned, NoResult if it raised
    error,      \* the exception the latest call raised, "none" if it returned
    baseSeen,   \* every text get_system_prompt has returned so far
    baseCalls,  \* how many times get_system_prompt has been called
    history,    \* when kept: every call made so far with its outcome
    threads     \* the concurrent callers: each one's call, position and locals

vars == <<template, inputs, fn, result, error, baseSeen, baseCalls, history, threads>>

\* What a call does: return a value or raise.
Return(v) == [error |-> "none", value |-> v]
Raise(e) == [error |-> e, value |-> NoResult]

\* A parameter with a default takes it when the call does not pass it.
Default(arg, d) == IF arg = Omitted THEN d ELSE arg

\* ----------------------------------------------------- get_system_prompt
\* Mutant: the text of the previous call is kept and handed out again.
get_system_prompt_Cached ==
    Return(IF result.kind = "str" THEN result ELSE StrV(template))

get_system_prompt == Return(StrV(template))

\* ----------------------------------------- get_system_prompt_with_context
\* "  - *Recommended Strategy*: Strategy N (name)\n"
Recommendation(strategy, name) ==
    <<"  - *Recommended Strategy*: ", strategy, " (", name, ")", "\n">>

\* Mutant: the first threshold compared with <= instead of <.
LengthRecommendation_InclusiveSmall(context_length) ==
    IF context_length <= SmallLimit
    THEN Recommendation("Strategy 1", "Direct processing")
    ELSE IF context_length < MediumLimit
    THEN Recommendation("Strategy 2", "Chunk and aggregate")
    ELSE Recommendation("Strategy 3", "Targeted search")

\* Mutant: the second test is an "if" of its own instead of an "elif", so a
\* small length gets the Strategy 1 and the Strategy 2 lines.
LengthRecommendation_NoElif(context_length) ==
    (IF context_length < SmallLimit
     THEN Recommendation("Strategy 1", "Direct processing") ELSE <<>>)
    \o (IF context_length < MediumLimit
        THEN Recommendation("Strategy 2", "Chunk and aggregate")
        ELSE Recommendation("Strategy 3", "Targeted search"))

\* prompts.py:868-874, the strategy chosen by the length
LengthRecommendation(context_length) ==
    IF context_length < SmallLimit
    THEN Recommendation("Strategy 1", "Direct processing")
    ELSE IF context_length < MediumLimit
    THEN Recommendation("Strategy 2", "Chunk and aggregate")
    ELSE Recommendation("Strategy 3", "Targeted search")

\* Mutant: the test is "if context_length:", so 0 counts as not given.
LengthPart_Truthy(context_length) ==
    IF context_length # None /\ context_length.val # 0
    THEN <<"- **Context Length**: ">> \o FormatComma(context_length.val)
            \o <<" characters", "\n">>
            \o LengthRecommendation(context_length.val)
    ELSE <<>>

\* prompts.py:865-874
LengthPart(context_length) ==
    IF context_length # None
    THEN <<"- **Context Length**: ">> \o FormatComma(context_length.val)
            \o <<" characters", "\n">>
            \o LengthRecommendation(context_length.val)
    ELSE <<>>

\* Mutant: the type compared without lower().
TypeRecommendation_CaseSensitive(type_chars) ==
    IF type_chars \in StructuredTypes
    THEN Recommendation("Strategy 4", "Structure-aware chunking")
    ELSE <<>>

\* prompts.py:879-880
TypeRecommendation(type_chars) ==
    IF Lower(type_chars) \in StructuredTypes
    THEN Recommendation("Strategy 4", "Structure-aware chunking")
    ELSE <<>>

\* prompts.py:876-880
TypePart(context_type) ==
    IF context_type # None
    THEN <<"- **Context Type**: ">> \o Format(context_type) \o <<"\n">>
            \o TypeRecommendation(context_type.chars)
    ELSE <<>>

\* Mutant: the line is appended without the test for None.
StructurePart_Unconditional(context_structure) ==
    <<"- **Structure**: ">> \o Format(context_structure) \o <<"\n">>

\* prompts.py:882-883
StructurePart(context_structure) ==
    IF context_structure # None
    THEN <<"- **Structure**: ">> \o Format(context_structure) \o <<"\n">>
    ELSE <<>>

\* The line of three backquote characters that opens and closes the preview
\* block (a backquote cannot be written inside a TLA+ string).
CodeFence == "<3 backquotes>"

\* Mutant: the "..." line is written only when the slice cut something off.
PreviewPart_MarkerWhenCut(context_preview) ==
    IF context_preview # None
    THEN <<"\n", "### Context Preview", "\n\n", CodeFence, "\n">>
            \o Format(StrV(Slice(context_preview.chars, PreviewLimit)))
            \o (IF Len(context_preview.chars) > PreviewLimit
                THEN <<"\n", "...", "\n", CodeFence, "\n">>
                ELSE <<"\n", CodeFence, "\n">>)
    ELSE <<>>

\* prompts.py:885-886
PreviewPart(context_preview) ==
    IF context_preview # None
    THEN <<"\n", "### Context Preview", "\n\n", CodeFence, "\n">>
            \o Format(StrV(Slice(context_preview.chars, PreviewLimit)))
            \o <<"\n", "...", "\n", CodeFence, "\n">>
    ELSE <<>>

\* Mutant: the type is looked at only when no length was given (the second
\* "if" written as "elif").
ContextInfo_TypeElif(context_type, context_length, context_structure, context_preview) ==
    <<"\n\n", "## Current Task Context", "\n\n">>
        \o LengthPart(context_length)
        \o (IF context_length # None THEN <<>> ELSE TypePart(context_type))
        \o StructurePart(context_structure)
        \o PreviewPart(context_preview)

\* Mutant: the lines appended in the order of the signature, the type
\* before the length.
ContextInfo_SignatureOrder(context_type, context_length, context_structure, context_preview) ==
    <<"\n\n", "## Current Task Context", "\n\n">>
        \o TypePart(context_type)
        \o LengthPart(context_length)
        \o StructurePart(context_structure)
        \o PreviewPart(context_preview)

\* prompts.py:863-886, the value of context_info at the return statement
ContextInfo(context_type, context_length, context_structure, context_preview) ==
    <<"\n\n", "## Current Task Context", "\n\n">>
        \o LengthPart(context_length)
        \o TypePart(context_type)
        \o StructurePart(context_structure)
        \o PreviewPart(context_preview)

\* Mutant: context_length declared with the default 0 instead of None.
get_system_prompt_with_context_ZeroDefault(context_type, context_length, context_structure, context_preview) ==
    Return(StrV(template \o ContextInfo(Default(context_type, None),
                                        Default(context_length, IntV(0)),
                                        Default(context_structure, None),
                                        Default(context_preview, None))))

\* Mutant: a negative context_length is refused.
ContextError_NegativeLength(context_type, context_length, context_preview) ==
    IF context_length.kind = "str" THEN "ValueError"
    ELSE IF context_length.kind = "int" /\ context_length.val < 0 THEN "ValueError"
    ELSE IF context_type.kind = "int" THEN "AttributeError"
    ELSE IF context_preview.kind = "int" THEN "TypeError: not subscriptable"
    ELSE "none"

\* The exception the body raises on a value that is not of the documented
\* type, in the order of the statements: the "," format spec applied to a
\* str (prompts.py:866), .lower() called on an int (prompts.py:879), an int
\* sliced (prompts.py:886); "none" when every statement runs.
ContextError(context_type, context_length, context_preview) ==
    IF context_length.kind = "str" THEN "ValueError"
    ELSE IF context_type.kind = "int" THEN "AttributeError"
    ELSE IF context_preview.kind = "int" THEN "TypeError: not subscriptable"
    ELSE "none"

\* Mutant: the defaults are a private marker, so a None that the caller
\* passes as context_structure counts as given and is formatted.
get_system_prompt_with_context_Sentinel(context_type, context_length, context_structure, context_preview) ==
    IF ContextError(Default(context_type, None), Default(context_length, None),
                    Default(context_preview, None)) # "none"
    THEN Raise(ContextError(Default(context_type, None), Default(context_length, None),
                            Default(context_preview, None)))
    ELSE Return(StrV(template \o ContextInfo(Default(context_type, None),
                                             Default(context_length, None),
                                             IF context_structure = None
                                             THEN StrV(<<"N", "o", "n", "e">>)
                                             ELSE Default(context_structure, None),
                                             Default(context_preview, None))))

\* Every parameter defaults to None.
get_system_prompt_with_context(context_type, context_length, context_structure, context_preview) ==
    IF ContextError(Default(context_type, None), Default(context_length, None),
                    Default(context_preview, None)) # "none"
    THEN Raise(ContextError(Default(context_type, None), Default(context_length, None),
                            Default(context_preview, None)))
    ELSE Return(StrV(template \o ContextInfo(Default(context_type, None),
                                             Default(context_length, None),
                                             Default(context_structure, None),
                                             Default(context_preview, None))))

\* ----------------------------------------- get_system_prompt_for_research
\* prompts.py:902-937, the literal text of the f-string around the
\* characters t of {topic} and d of {document_type}
ResearchText(t, d) ==
    <<"\n\n", "## Current Research Task", "\n\n",
      "You are tasked with researching and writing a ">>
        \o d \o <<" on the topic: **">> \o t \o
    <<"**", "\n\n",
      "### Recommended Approach", "\n\n",
      "1. **", "Research Phase", "** (", "Pattern D", "):", "\n",
      "   - Check memory_search(\"">>
        \o t \o
    <<"\", k=10) for prior knowledge", "\n",
      "   - Define 4-6 key research questions", "\n",
      "   - Use llm_query() to investigate each question", "\n",
      "   - Gather and organize findings", "\n\n",
      "2. **", "Planning Phase", "**:", "\n",
      "   - Create a detailed outline based on findings", "\n\n",
      "3. **", "Writing Phase", "**:", "\n",
      "   - Write each section using llm_query()", "\n\n",
      "4. **", "Review Phase", "**:", "\n",
      "   - Check completeness and flow", "\n\n",
      "### Expected Output", "\n\n",
      "Return the complete ">>
        \o d \o
    <<" using FINAL() with proper formatting, citations, and structure.", "\n\n",
      "**Now proceed with the research and writing task using ", "Pattern D",
      " from the main prompt.**", "\n">>

\* Every brace doubled, as escaping for a second formatting pass would do
RECURSIVE EscapeBraces(_)
EscapeBraces(s) ==
    IF s = <<>> THEN <<>>
    ELSE (IF Head(s) \in {"{", "}"} THEN <<Head(s), Head(s)>> ELSE <<Head(s)>>)
            \o EscapeBraces(Tail(s))

\* Mutant: the topic is brace-escaped before it is inserted.
research_addendum_EscapedTopic(topic, document_type) ==
    ResearchText(EscapeBraces(Format(topic)), Format(document_type))

\* prompts.py:902-937, the f-string with its fields {topic}, {document_type}
research_addendum(topic, document_type) ==
    ResearchText(Format(topic), Format(document_type))

\* Mutant: another default for document_type.
DefaultDocumentType_Paper == StrV(<<"p", "a", "p", "e", "r">>)

\* document_type="research paper"
DefaultDocumentType ==
    StrV(<<"r", "e", "s", "e", "a", "r", "c", "h", " ", "p", "a", "p", "e", "r">>)

\* Mutant: topic declared with the default "", so a call without it returns.
get_system_prompt_for_research_DefaultTopic(topic, document_type) ==
    Return(StrV(template
            \o research_addendum(Default(topic, StrV(<<>>)),
                                 Default(document_type, DefaultDocumentType))))

\* topic has no default: a call that does not pass it raises TypeError
\* before the body runs.
get_system_prompt_for_research(topic, document_type) ==
    IF topic = Omitted THEN Raise("TypeError")
    ELSE Return(StrV(template
            \o research_addendum(topic, Default(document_type, DefaultDocumentType))))

\* --------------------------------------------- get_system_prompt_for_code
\* prompts.py:952-985, the literal text of the f-string around the
\* characters t of {task_description}
CodeText(t) ==
    <<"\n\n", "## Current Code Task", "\n\n", "You are tasked with: **">>
        \o t \o
    <<"**", "\n\n",
      "### Recommended Approach", "\n\n",
      "Use **", "Pattern E", ": Code Analysis/Generation** from the main prompt.",
      "\n\n",
      "#### For Code Analysis:", "\n",
      "1. Examine code structure and organization", "\n\n",
      "#### For Code Generation:", "\n",
      "1. Break down requirements into specifications", "\n\n",
      "### ", "Code Quality Standards", "\n\n",
      "Ensure all code:", "\n",
      "- Has clear docstrings and comments", "\n\n",
      "**Now proceed with the code task using ", "Pattern E",
      " from the main prompt.**", "\n">>

\* str.strip() for the space character
RECURSIVE Strip(_)
Strip(s) ==
    IF s = <<>> THEN s
    ELSE IF Head(s) = " " THEN Strip(Tail(s))
    ELSE IF s[Len(s)] = " " THEN Strip(SubSeq(s, 1, Len(s) - 1))
    ELSE s

\* Mutant: the description is stripped before it is inserted.
code_addendum_Stripped(task_description) ==
    CodeText(Strip(Format(task_description)))

\* prompts.py:952-985, the f-string with its field {task_description}
code_addendum(task_description) == CodeText(Format(task_description))

\* Mutant: the Template is stripped of its final newline before the
\* addendum is appended.
get_system_prompt_for_code_StrippedTemplate(task_description) ==
    IF task_description = Omitted THEN Raise("TypeError")
    ELSE Return(StrV(SubSeq(template, 1, Len(template) - 1)
                        \o code_addendum(task_description)))

\* Mutant: the addendum is put before the template.
get_system_prompt_for_code_Prepended(task_description) ==
    IF task_description = Omitted THEN Raise("TypeError")
    ELSE Return(StrV(code_addendum(task_description) \o template))

get_system_prompt_for_code(task_description) ==
    IF task_description = Omitted THEN Raise("TypeError")
    ELSE Return(StrV(template \o code_addendum(task_description)))

\* ----------------------------------------- get_system_prompt_for_analysis
\* prompts.py:1000-1036, the literal text of the f-string around the
\* characters t of {context_description}
AnalysisText(t) ==
    <<"\n\n", "## Current Analysis Task", "\n\n", "You will analyze: **">>
        \o t \o
    <<"**", "\n\n",
      "### Recommended Approach", "\n\n",
      "1. **", "Initial Assessment", "**:", "\n",
      "   - Check context length with len(context)", "\n",
      "   - Choose appropriate strategy (1-5)", "\n\n",
      "2. **", "Analysis Phase", "** (", "Pattern B", "):", "\n",
      "   - Apply chosen strategy for context processing", "\n\n",
      "3. **", "Synthesis Phase", "**:", "\n",
      "   - Aggregate findings", "\n\n",
      "4. **", "Output Phase", "**:", "\n",
      "   - Present analysis clearly", "\n\n",
      "### Key Considerations", "\n\n",
      "- **Small contexts** (< 500K chars): Use direct analysis", "\n",
      "- **Medium contexts** (500K-2M chars): ", "Chunk and aggregate", "\n",
      "- **Large contexts** (> 2M chars): Use targeted search", "\n",
      "- **Structured content**: Leverage structure for efficient processing",
      "\n\n",
      "**Now proceed with the analysis task using appropriate strategies from the main prompt.**",
      "\n">>

\* Every double quote preceded by a backslash, as repr-style quoting would do
RECURSIVE EscapeQuotes(_)
EscapeQuotes(s) ==
    IF s = <<>> THEN <<>>
    ELSE (IF Head(s) = "\"" THEN <<"\\", "\"">> ELSE <<Head(s)>>)
            \o EscapeQuotes(Tail(s))

\* Mutant: the description is quote-escaped before it is inserted.
analysis_addendum_EscapedQuotes(context_description) ==
    AnalysisText(EscapeQuotes(Format(context_description)))

\* prompts.py:1000-1036, the f-string with its field {context_description}
analysis_addendum(context_description) ==
    AnalysisText(Format(context_description))

\* Mutant: the text of the latest call, whatever it was, is kept and handed
\* out again.
get_system_prompt_for_analysis_Memo(context_description) ==
    IF context_description = Omitted THEN Raise("TypeError")
    ELSE IF result.kind = "str" THEN Return(result)
    ELSE Return(StrV(template \o analysis_addendum(context_description)))

\* Mutant: an empty description is rejected.
get_system_prompt_for_analysis_RejectsEmpty(context_description) ==
    IF context_description = Omitted THEN Raise("TypeError")
    ELSE IF context_description = StrV(<<>>) THEN Raise("ValueError")
    ELSE Return(StrV(template \o analysis_addendum(context_description)))

get_system_prompt_for_analysis(context_description) ==
    IF context_description = Omitted THEN Raise("TypeError")
    ELSE Return(StrV(template \o analysis_addendum(context_description)))

\* ------------------------------------------------------------------ inputs
\* Characters of caller strings: a letter, the brace and quote characters an
\* f-string or an escaping step could treat specially, a space.
Alphabet == {"a", "{", "}", "\"", " "}

CallerStrings == {StrV(s) : s \in Strings(Alphabet, MaxStrLen)}

ShortStrings == {StrV(s) : s \in Strings(Alphabet, MaxShortLen)}

\* A required string parameter: not passed, passed as None, or a string.
StringInputs == {Omitted, None} \cup CallerStrings

Upper(s) ==
    [i \in 1..Len(s) |->
        CASE s[i] = "a" -> "A" [] s[i] = "c" -> "C" [] s[i] = "d" -> "D"
          [] s[i] = "e" -> "E" [] s[i] = "h" -> "H" [] s[i] = "j" -> "J"
          [] s[i] = "k" -> "K" [] s[i] = "l" -> "L" [] s[i] = "m" -> "M"
          [] s[i] = "n" -> "N" [] s[i] = "o" -> "O" [] s[i] = "r" -> "R"
          [] s[i] = "s" -> "S" [] s[i] = "t" -> "T" [] s[i] = "w" -> "W"
          [] s[i] = "x" -> "X" [] OTHER -> s[i]]

Capitalize(s) == [i \in 1..Len(s) |-> IF i = 1 THEN Upper(s)[1] ELSE s[i]]

\* context_type samples: the recognized names in three spellings, a
\* recognized name with a character after or before it, names that are not
\* recognized, and short strings.
TypeSamples ==
    StructuredTypes
        \cup {Upper(s) : s \in StructuredTypes}
        \cup {Capitalize(s) : s \in StructuredTypes}
        \cup {<<"x", "m", "l", " ">>, <<"x", "j", "s", "o", "n">>,
              <<"t", "e", "x", "t">>, <<"T", "E", "X", "T">>, <<"j", "s">>}
        \cup Strings(Alphabet, MaxShortLen)

TypeInputs == {Omitted, None} \cup {StrV(s) : s \in TypeSamples}

\* context_length samples: negative, zero, around the first comma position,
\* the lengths of the tests, around each threshold, a large one.
LengthSamples ==
    {-1000, -1, 0, 999, 1000, 100000, 200000, 1000000, 5000000, 2147483647}
        \cup {SmallLimit + d : d \in (0 - Spread)..Spread}
        \cup {MediumLimit + d : d \in (0 - Spread)..Spread}

LengthInputs == {Omitted, None} \cup {IntV(n) : n \in LengthSamples}

\* A preview of n characters; the characters past the limit differ from
\* those before it.
LongPreview(n) ==
    [i \in 1..n |-> IF i > PreviewLimit THEN "z"
                    ELSE IF i % 2 = 0 THEN "a" ELSE "b"]

PreviewInputs ==
    {Omitted, None, StrV(<<>>), StrV(<<"a", "\"">>)}
        \cup {StrV(LongPreview(n)) : n \in (PreviewLimit - 1)..(PreviewLimit + MaxOver)}

\* The arguments of get_system_prompt_with_context: every type with every
\* length; every supplied/omitted combination of the four parameters; every
\* preview with and without the lines before it.
ContextInputs ==
    [context_type : TypeInputs, context_length : LengthInputs,
     context_structure : {Omitted}, context_preview : {Omitted}]
    \cup
    [context_type : {Omitted, None, StrV(<<"X", "m", "l">>), StrV(<<"t", "e", "x", "t">>)},
     context_length : {Omitted, None, IntV(0), IntV(MediumLimit)},
     context_structure : {Omitted, None, StrV(<<>>), StrV(<<"{", "a", "}">>)},
     context_preview : {Omitted, None, StrV(<<"a", "\"">>), StrV(LongPreview(PreviewLimit + 1))}]
    \cup
    [context_type : {Omitted, StrV(<<"j", "s", "o", "n">>)},
     context_length : {Omitted, IntV(100000)},
     context_structure : {Omitted},
     context_preview : PreviewInputs]

\* Calls of get_system_prompt_with_context with one argument that is not of
\* the documented type.
OtherTypeContextInputs ==
    {[context_type |-> IntV(5)], [context_length |-> StrV(<<"1", "2">>)],
     [context_structure |-> IntV(5)], [context_preview |-> IntV(5)]}

ResearchInputs ==
    [topic : StringInputs, document_type : {Omitted, None} \cup ShortStrings]
        \cup {[topic |-> IntV(5), document_type |-> IntV(7)]}

CodeInputs == [task_description : StringInputs]

AnalysisInputs == [context_description : StringInputs]

\* What every parameter is when the caller varies another function's
\* arguments: the calls of the tests.
TestInputs ==
    [context_type |-> StrV(<<"m", "a", "r", "k", "d", "o", "w", "n">>),
     context_length |-> IntV(200000),
     context_structure |-> Omitted,
     context_preview |-> Omitted,
     topic |-> StrV(<<"a", " ", "a">>),
     document_type |-> StrV(<<"a">>),
     task_description |-> StrV(<<"a", " ", "a">>),
     context_description |-> StrV(<<"a", " ", "a">>)]

\* r with the fields of d replaced by d's
Override(r, d) ==
    [k \in DOMAIN r |-> IF k \in DOMAIN d THEN d[k] ELSE r[k]]

\* The caller's arguments: those of one function vary, the others are the
\* tests'.
NoContextInputs ==
    [context_type |-> Omitted, context_length |-> Omitted,
     context_structure |-> Omitted, context_preview |-> Omitted]

InputSpace ==
    {Override(TestInputs, d) :
        d \in ContextInputs \cup ResearchInputs \cup CodeInputs \cup AnalysisInputs}
    \cup {Override(TestInputs, Override(NoContextInputs, d)) :
            d \in OtherTypeContextInputs}

\* -------------------------------------------------------------- behaviour
\* The caller holds one argument list per function and calls the five
\* functions in any order, any number of times.
Init ==
    /\ template = MOSAIC_SYSTEM_PROMPT
    /\ inputs \in InputSpace
    /\ fn = "none"
    /\ result = NoResult
    /\ error = "none"
    /\ baseSeen = {}
    /\ baseCalls = 0
    /\ history = [on |-> FALSE, calls |-> {}, repeated |-> FALSE]
    /\ threads = <<>>

\* Mutant: the addendum is appended to the module global itself
\* (MOSAIC_SYSTEM_PROMPT += ...), so the returned text becomes the Template.
Finish_AssignsGlobal(f, out) ==
    /\ fn' = f
    /\ result' = out.value
    /\ error' = out.error
    /\ template' = IF out.error = "none" THEN out.value.chars ELSE template
    /\ UNCHANGED <<inputs, threads>>

\* The caller runs f and gets outcome out.
Finish(f, out) ==
    /\ fn' = f
    /\ result' = out.value
    /\ error' = out.error
    /\ UNCHANGED <<template, inputs, threads>>

\* The call f(a) with outcome out joins the history, when one is kept;
\* "repeated" tells that the same call was made before and that the call
\* just before this one was another.
Remember(f, a, out) ==
    IF history.on
    THEN history' = [on |-> TRUE,
                     calls |-> history.calls \cup {[fn |-> f, args |-> a, out |-> out]},
                     repeated |-> /\ fn # f
                                  /\ \E c \in history.calls : c.fn = f /\ c.args = a]
    ELSE UNCHANGED history

CallBase ==
    /\ baseCalls < MaxBaseCalls
    /\ Finish("get_system_prompt", get_system_prompt)
    /\ Remember("get_system_prompt", <<>>, get_system_prompt)
    /\ baseSeen' = baseSeen \cup {get_system_prompt.value}
    /\ baseCalls' = baseCalls + 1

CallWithContext ==
    /\ Finish("get_system_prompt_with_context",
              get_system_prompt_with_context(inputs.context_type,
                                             inputs.context_length,
                                             inputs.context_structure,
                                             inputs.context_preview))
    /\ Remember("get_system_prompt_with_context",
                <<inputs.context_type, inputs.context_length,
                  inputs.context_structure, inputs.context_preview>>,
                get_system_prompt_with_context(inputs.context_type,
                                               inputs.context_length,
                                               inputs.context_structure,
                                               inputs.context_preview))
    /\ UNCHANGED <<baseSeen, baseCalls>>

CallResearch ==
    /\ Finish("get_system_prompt_for_research",
              get_system_prompt_for_research(inputs.topic, inputs.document_type))
    /\ Remember("get_system_prompt_for_research",
                <<inputs.topic, inputs.document_type>>,
                get_system_prompt_for_research(inputs.topic, inputs.document_type))
    /\ UNCHANGED <<baseSeen, baseCalls>>

CallCode ==
    /\ Finish("get_system_prompt_for_code",
              get_system_prompt_for_code(inputs.task_description))
    /\ Remember("get_system_prompt_for_code", <<inputs.task_description>>,
                get_system_prompt_for_code(inputs.task_description))
    /\ UNCHANGED <<baseSeen, baseCalls>>

CallAnalysis ==
    /\ Finish("get_system_prompt_for_analysis",
              get_system_prompt_for_analysis(inputs.context_description))
    /\ Remember("get_system_prompt_for_analysis", <<inputs.context_description>>,
                get_system_prompt_for_analysis(inputs.context_description))
    /\ UNCHANGED <<baseSeen, baseCalls>>

Next ==
    \/ CallBase
    \/ CallWithContext
    \/ CallResearch
    \/ CallCode
    \/ CallAnalysis

Spec == Init /\ [][Next]_vars

\* ------------------------------------------------ behaviour with a history
\* document_type="research paper", as a caller writes it out
ExplicitResearchPaper ==
    StrV(<<"r", "e", "s", "e", "a", "r", "c", "h", " ", "p", "a", "p", "e", "r">>)

\* The arguments of the behaviours that keep a history of the calls.
HistoryInputs ==
    {Override(TestInputs, d) :
        d \in [topic : {Omitted, None, StrV(<<>>), StrV(<<"{", "a">>)},
               document_type : {Omitted, ExplicitResearchPaper, StrV(<<"a">>)},
               context_description : {StrV(<<>>), StrV(<<"a", " ", "a">>)}]}

InitHistory ==
    /\ template = MOSAIC_SYSTEM_PROMPT
    /\ inputs \in HistoryInputs
    /\ fn = "none"
    /\ result = NoResult
    /\ error = "none"
    /\ baseSeen = {}
    /\ baseCalls = 0
    /\ history = [on |-> TRUE, calls |-> {}, repeated |-> FALSE]
    /\ threads = <<>>

\* The call get_system_prompt_for_research(topic), without document_type,
\* whatever document_type the caller passes in its other research calls.
CallResearchTopicOnly ==
    /\ Finish("get_system_prompt_for_research(topic)",
              get_system_prompt_for_research(inputs.topic, Omitted))
    /\ Remember("get_system_prompt_for_research", <<inputs.topic, Omitted>>,
                get_system_prompt_for_research(inputs.topic, Omitted))
    /\ UNCHANGED <<baseSeen, baseCalls>>

NextHistory ==
    \/ CallBase
    \/ CallWithContext
    \/ CallResearch
    \/ CallResearchTopicOnly
    \/ CallCode
    \/ CallAnalysis

SpecHistory == InitHistory /\ [][NextHistory]_vars

\* ------------------------------------------ behaviour of concurrent callers
\* Each caller runs one call, statement by statement; the callers share the
\* module-level MOSAIC_SYSTEM_PROMPT and nothing else: context_info and
\* addendum are locals of the call.
MaxThreads == 2

Threads == 1..MaxThreads

Functions == {"get_system_prompt", "get_system_prompt_with_context",
              "get_system_prompt_for_research", "get_system_prompt_for_code",
              "get_system_prompt_for_analysis"}

\* The argument lists a caller may hold: one that every function accepts, one
\* with the required topic missing and other values everywhere, one with a
\* preview that is not a string.
ThreadInputs ==
    {TestInputs,
     [context_type |-> Omitted,
      context_length |-> IntV(2000000),
      context_structure |-> StrV(<<"a">>),
      context_preview |-> StrV(<<"{">>),
      topic |-> Omitted,
      document_type |-> Omitted,
      task_description |-> StrV(<<>>),
      context_description |-> None],
     Override(TestInputs, [context_preview |-> IntV(5)])}

NoOutcome == [error |-> "pending", value |-> NoResult]

InitThreads ==
    /\ template = MOSAIC_SYSTEM_PROMPT
    /\ inputs = TestInputs
    /\ fn = "none"
    /\ result = NoResult
    /\ error = "none"
    /\ baseSeen = {}
    /\ baseCalls = 0
    /\ history = [on |-> FALSE, calls |-> {}, repeated |-> FALSE]
    /\ threads \in [Threads -> [fn : {"none"}, args : ThreadInputs, pc : {"idle"},
                                local : {<<>>}, out : {NoOutcome},
                                overlapped : {FALSE}]]

Active(t) == threads[t].pc \notin {"idle", "done"}

\* Thread t moves to position pc with the local l.
Goto(t, pc, l) ==
    /\ threads' = [threads EXCEPT ![t].pc = pc, ![t].local = l]
    /\ UNCHANGED <<template, inputs, fn, result, error, baseSeen, baseCalls, history>>

\* Thread t leaves its call with the outcome out.
Leave(t, out) ==
    /\ threads' = [threads EXCEPT ![t].pc = "done", ![t].out = out]
    /\ UNCHANGED <<template, inputs, fn, result, error, baseSeen, baseCalls, history>>

\* Mutant: the return statement appends the local to the module-level
\* string in place and returns that.
ThreadReturn_InPlace(t) ==
    /\ threads[t].pc = "return"
    /\ template' = template \o threads[t].local
    /\ threads' = [threads EXCEPT ![t].pc = "done",
                                  ![t].out = Return(StrV(template \o threads[t].local))]
    /\ UNCHANGED <<inputs, fn, result, error, baseSeen, baseCalls, history>>

\* The parameters that have no default, per function
Required(f) ==
    CASE f = "get_system_prompt_for_research" -> {"topic"}
      [] f = "get_system_prompt_for_code" -> {"task_description"}
      [] f = "get_system_prompt_for_analysis" -> {"context_description"}
      [] OTHER -> {}

\* Thread t calls f: the arguments are bound, which fails when a required
\* one is missing, and the body is entered.  Threads inside a call at that
\* moment, and t with them, are marked as overlapping.
ThreadStart(t, f) ==
    /\ threads[t].pc = "idle"
    /\ threads' =
        [u \in Threads |->
            IF u = t
            THEN [threads[t] EXCEPT
                    !.fn = f,
                    !.overlapped = \E v \in Threads : Active(v),
                    !.pc = IF \E a \in Required(f) : threads[t].args[a] = Omitted
                           THEN "done"
                           ELSE IF f = "get_system_prompt" THEN "return"
                           ELSE IF f = "get_system_prompt_with_context" THEN "header"
                           ELSE "addendum",
                    !.out = IF \E a \in Required(f) : threads[t].args[a] = Omitted
                            THEN Raise("TypeError")
                            ELSE NoOutcome]
            ELSE IF Active(u) THEN [threads[u] EXCEPT !.overlapped = TRUE]
            ELSE threads[u]]
    /\ UNCHANGED <<template, inputs, fn, result, error, baseSeen, baseCalls, history>>

\* context_info = "\n\n## Current Task Context\n\n"
ThreadHeader(t) ==
    /\ threads[t].pc = "header"
    /\ Goto(t, "length", <<"\n\n", "## Current Task Context", "\n\n">>)

\* if context_length: context_info += ...
ThreadLength(t) ==
    /\ threads[t].pc = "length"
    /\ IF ContextError(None, Default(threads[t].args.context_length, None), None) # "none"
       THEN Leave(t, Raise(ContextError(None, Default(threads[t].args.context_length, None), None)))
       ELSE Goto(t, "type", threads[t].local
                    \o LengthPart(Default(threads[t].args.context_length, None)))

\* if context_type: context_info += ...
ThreadType(t) ==
    /\ threads[t].pc = "type"
    /\ IF ContextError(Default(threads[t].args.context_type, None), None, None) # "none"
       THEN Leave(t, Raise(ContextError(Default(threads[t].args.context_type, None), None, None)))
       ELSE Goto(t, "structure", threads[t].local
                    \o TypePart(Default(threads[t].args.context_type, None)))

\* if context_structure: context_info += ...
ThreadStructure(t) ==
    /\ threads[t].pc = "structure"
    /\ Goto(t, "preview", threads[t].local
                \o StructurePart(Default(threads[t].args.context_structure, None)))

\* if context_preview: context_info += ...
ThreadPreview(t) ==
    /\ threads[t].pc = "preview"
    /\ IF ContextError(None, None, Default(threads[t].args.context_preview, None)) # "none"
       THEN Leave(t, Raise(ContextError(None, None, Default(threads[t].args.context_preview, None))))
       ELSE Goto(t, "return", threads[t].local
                    \o PreviewPart(Default(threads[t].args.context_preview, None)))

\* addendum = f"""..."""
ThreadAddendum(t) ==
    /\ threads[t].pc = "addendum"
    /\ Goto(t, "return",
            CASE threads[t].fn = "get_system_prompt_for_research" ->
                    research_addendum(threads[t].args.topic,
                                      Default(threads[t].args.document_type,
                                              DefaultDocumentType))
              [] threads[t].fn = "get_system_prompt_for_code" ->
                    code_addendum(threads[t].args.task_description)
              [] threads[t].fn = "get_system_prompt_for_analysis" ->
                    analysis_addendum(threads[t].args.context_description))

\* return MOSAIC_SYSTEM_PROMPT + context_info (or + addendum, or alone)
ThreadReturn(t) ==
    /\ threads[t].pc = "return"
    /\ Leave(t, Return(StrV(template \o threads[t].local)))

NextThreads ==
    \E t \in Threads :
        \/ \E f \in Functions : ThreadStart(t, f)
        \/ ThreadHeader(t)
        \/ ThreadLength(t)
        \/ ThreadType(t)
        \/ ThreadStructure(t)
        \/ ThreadPreview(t)
        \/ ThreadAddendum(t)
        \/ ThreadReturn(t)

SpecThreads == InitThreads /\ [][NextThreads]_vars

\* ------------------------------------------------------------- vocabulary
\* The latest call was f and it returned.
Returned(f) == fn = f /\ error = "none" /\ result.kind = "str"

\* The part of the returned text after the first Len(Template) tokens
Addendum == SubSeq(result.chars, Len(MOSAIC_SYSTEM_PROMPT) + 1, Len(result.chars))

\* The recommendation texts, as the tests look for them
Strategy1Text == <<"Strategy 1", " (", "Direct processing", ")">>
Strategy2Text == <<"Strategy 2", " (", "Chunk and aggregate", ")">>
Strategy3Text == <<"Strategy 3", " (", "Targeted search", ")">>
Strategy4Text == <<"Strategy 4", " (", "Structure-aware chunking", ")">>

StrategyText(k) ==
    CASE k = 1 -> Strategy1Text [] k = 2 -> Strategy2Text
      [] k = 3 -> Strategy3Text [] k = 4 -> Strategy4Text

\* A whole recommendation line
RecommendationLine(k) ==
    <<"  - *Recommended Strategy*: ">> \o StrategyText(k) \o <<"\n">>

\* The bucket the spec gives a length
Bucket(n) == IF n < 500000 THEN 1 ELSE IF n < 2000000 THEN 2 ELSE 3

\* s and name are the same string when case is ignored
EqualsIgnoringCase(s, name) ==
    /\ Len(s) = Len(name)
    /\ \A i \in 1..Len(name) : s[i] = name[i] \/ s[i] = Upper(name)[i]

\* markdown, json, xml, html, code
RecognizedNames == {
    <<"m", "a", "r", "k", "d", "o", "w", "n">>, <<"j", "s", "o", "n">>,
    <<"x", "m", "l">>, <<"h", "t", "m", "l">>, <<"c", "o", "d", "e">> }

Recognized(v) ==
    /\ v.kind = "str"
    /\ \E name \in RecognizedNames : EqualsIgnoringCase(v.chars, name)

\* The arguments of get_system_prompt_with_context are of the documented
\* types: a str or None (or not passed) for context_type, context_structure
\* and context_preview, an int or None (or not passed) for context_length.
DocumentedContextTypes ==
    /\ inputs.context_type.kind \in {"str", "none", "omitted"}
    /\ inputs.context_length.kind \in {"int", "none", "omitted"}
    /\ inputs.context_structure.kind \in {"str", "none", "omitted"}
    /\ inputs.context_preview.kind \in {"str", "none", "omitted"}

\* ------------------------------------------------------------------ claims
\* C1: for every context_length >= 0 passed to
\* get_system_prompt_with_context, the returned text has the recommendation
\* line of Strategy 1 exactly when the length is below 500000, that of
\* Strategy 2 exactly when it is at least 500000 and below 2000000, and that
\* of Strategy 3 exactly when it is at least 2000000.
C1_LengthBuckets ==
    (fn = "get_system_prompt_with_context"
        /\ inputs.context_length.kind = "int"
        /\ inputs.context_length.val >= 0)
    => /\ Returned("get_system_prompt_with_context")
       /\ LET n == inputs.context_length.val IN
            /\ Contains(Addendum, RecommendationLine(1)) <=> n < 500000
            /\ Contains(Addendum, RecommendationLine(2)) <=> (500000 <= n /\ n < 2000000)
            /\ Contains(Addendum, RecommendationLine(3)) <=> n >= 2000000

\* A call with exactly 500000 returned the Strategy 2 line.
C1_Witness ==
    /\ Returned("get_system_prompt_with_context")
    /\ inputs.context_length = IntV(500000)
    /\ Contains(result.chars, RecommendationLine(2))

\* C2: with a recognized context_type and a context_length, the returned
\* text has the recommendation line of the length's bucket and the Strategy 4
\* line, whatever the bucket.
C2_LengthAndStructure ==
    (fn = "get_system_prompt_with_context"
        /\ Recognized(inputs.context_type)
        /\ inputs.context_length.kind = "int")
    => /\ Returned("get_system_prompt_with_context")
       /\ Contains(result.chars, RecommendationLine(Bucket(inputs.context_length.val)))
       /\ Contains(result.chars, RecommendationLine(4))

\* markdown with 200000 returned the Strategy 1 and the Strategy 4 texts.
C2_Witness ==
    /\ Returned("get_system_prompt_with_context")
    /\ inputs.context_type = StrV(<<"m", "a", "r", "k", "d", "o", "w", "n">>)
    /\ inputs.context_length = IntV(200000)
    /\ Contains(result.chars, Strategy1Text)
    /\ Contains(result.chars, Strategy4Text)

\* C3: the Strategy 4 line is in the returned text exactly when context_type
\* is a string that, as a whole and ignoring case, is one of markdown, json,
\* xml, html, code, with or without a context_length; any string given as
\* context_type returns and has its Context Type line.
C3_StructureIffRecognized ==
    (fn = "get_system_prompt_with_context" /\ DocumentedContextTypes)
    => /\ Returned("get_system_prompt_with_context")
       /\ Contains(result.chars, RecommendationLine(4)) <=> Recognized(inputs.context_type)
       /\ inputs.context_type.kind = "str"
            => Contains(Addendum, <<"- **Context Type**: ">>
                                    \o inputs.context_type.chars \o <<"\n">>)

\* An upper-case name without a length got the Strategy 4 line.
C3_Witness ==
    /\ Returned("get_system_prompt_with_context")
    /\ inputs.context_type = StrV(<<"J", "S", "O", "N">>)
    /\ inputs.context_length = Omitted
    /\ Contains(result.chars, RecommendationLine(4))

\* Only context_length is passed.
OnlyLength ==
    /\ inputs.context_length.kind = "int"
    /\ inputs.context_type.kind \in {"omitted", "none"}
    /\ inputs.context_structure.kind \in {"omitted", "none"}
    /\ inputs.context_preview.kind \in {"omitted", "none"}

\* C4: with only context_length passed, the returned text, Template
\* included, has exactly one of the three length-based recommendation texts;
\* with 100000 it is that of Strategy 1.
C4_ExactlyOneLengthText ==
    (fn = "get_system_prompt_with_context" /\ OnlyLength)
    => /\ Returned("get_system_prompt_with_context")
       /\ Cardinality({k \in 1..3 : Contains(result.chars, StrategyText(k))}) = 1
       /\ inputs.context_length.val = 100000
            => /\ Contains(result.chars, Strategy1Text)
               /\ ~Contains(result.chars, Strategy2Text)
               /\ ~Contains(result.chars, Strategy3Text)

\* The call with only context_length = 100000 returned.
C4_Witness ==
    /\ Returned("get_system_prompt_with_context")
    /\ OnlyLength
    /\ inputs.context_length.val = 100000
    /\ Contains(result.chars, Strategy1Text)

\* C5: for every topic string and document_type string,
\* get_system_prompt_for_research returns the Template followed by the
\* research addendum, whose four phases come in order and in which the topic
\* and the document type stand unchanged at their places.
C5_ResearchVerbatim ==
    (fn = "get_system_prompt_for_research"
        /\ inputs.topic.kind = "str" /\ inputs.document_type.kind = "str")
    => LET t == inputs.topic.chars
           d == inputs.document_type.chars
       IN
        /\ Returned("get_system_prompt_for_research")
        /\ StartsWith(result.chars, MOSAIC_SYSTEM_PROMPT)
        /\ StartsWith(Addendum, <<"\n\n", "## Current Research Task">>)
        /\ Contains(Addendum, <<"You are tasked with researching and writing a ">>
                                \o d \o <<" on the topic: **">> \o t \o <<"**">>)
        /\ Contains(Addendum, <<"   - Check memory_search(\"">> \o t
                                \o <<"\", k=10) for prior knowledge">>)
        /\ Contains(Addendum, <<"Return the complete ">> \o d
                \o <<" using FINAL() with proper formatting, citations, and structure.">>)
        /\ 0 < Find(Addendum, <<"Research Phase">>)
        /\ Find(Addendum, <<"Research Phase">>) < Find(Addendum, <<"Planning Phase">>)
        /\ Find(Addendum, <<"Planning Phase">>) < Find(Addendum, <<"Writing Phase">>)
        /\ Find(Addendum, <<"Writing Phase">>) < Find(Addendum, <<"Review Phase">>)
        /\ Contains(result.chars, t)
        /\ Contains(result.chars, d)

\* A topic made of a brace and a quote, with a document type, was inserted.
C5_Witness ==
    /\ Returned("get_system_prompt_for_research")
    /\ inputs.topic = StrV(<<"{", "\"">>)
    /\ inputs.document_type = StrV(<<"}">>)
    /\ Contains(Addendum, <<" on the topic: **", "{", "\"", "**">>)

\* C6: for every task_description string, get_system_prompt_for_code returns
\* the Template followed by the code addendum, which names Pattern E and has
\* the Code Quality Standards section, with the description unchanged at its
\* place.
C6_CodeVerbatim ==
    (fn = "get_system_prompt_for_code" /\ inputs.task_description.kind = "str")
    => LET t == inputs.task_description.chars IN
        /\ Returned("get_system_prompt_for_code")
        /\ StartsWith(result.chars, MOSAIC_SYSTEM_PROMPT)
        /\ StartsWith(Addendum, <<"\n\n", "## Current Code Task">>)
        /\ Contains(Addendum, <<"You are tasked with: **">> \o t \o <<"**">>)
        /\ Contains(Addendum, <<"Pattern E">>)
        /\ Contains(Addendum, <<"Code Quality Standards">>)
        /\ Contains(result.chars, t)

\* A description that starts with a space and holds a brace was inserted.
C6_Witness ==
    /\ Returned("get_system_prompt_for_code")
    /\ inputs.task_description = StrV(<<" ", "{">>)
    /\ Contains(Addendum, <<"You are tasked with: **", " ", "{", "**">>)

\* C7: for every context_description string, get_system_prompt_for_analysis
\* returns the Template followed by the analysis addendum, whose four phases
\* come in order with the Analysis Phase naming Pattern B, with the
\* description unchanged at its place.
C7_AnalysisVerbatim ==
    (fn = "get_system_prompt_for_analysis" /\ inputs.context_description.kind = "str")
    => LET t == inputs.context_description.chars IN
        /\ Returned("get_system_prompt_for_analysis")
        /\ StartsWith(result.chars, MOSAIC_SYSTEM_PROMPT)
        /\ StartsWith(Addendum, <<"\n\n", "## Current Analysis Task">>)
        /\ Contains(Addendum, <<"You will analyze: **">> \o t \o <<"**">>)
        /\ Contains(Addendum, <<"Analysis Phase", "** (", "Pattern B", "):">>)
        /\ 0 < Find(Addendum, <<"Initial Assessment">>)
        /\ Find(Addendum, <<"Initial Assessment">>) < Find(Addendum, <<"Analysis Phase">>)
        /\ Find(Addendum, <<"Analysis Phase">>) < Find(Addendum, <<"Synthesis Phase">>)
        /\ Find(Addendum, <<"Synthesis Phase">>) < Find(Addendum, <<"Output Phase">>)
        /\ Contains(result.chars, t)

\* A description that holds a double quote was inserted.
C7_Witness ==
    /\ Returned("get_system_prompt_for_analysis")
    /\ inputs.context_description = StrV(<<"\"", "a">>)
    /\ Contains(Addendum, <<"You will analyze: **", "\"", "a", "**">>)

\* C8: get_system_prompt returns exactly the Template, and all its calls in
\* a sequence of calls of the five functions return the same text.
C8_BasePromptFixed ==
    /\ fn = "get_system_prompt"
        => /\ Returned("get_system_prompt")
           /\ result.chars = MOSAIC_SYSTEM_PROMPT
    /\ Cardinality(baseSeen) <= 1

\* get_system_prompt was called twice and another function after it.
C8_Witness ==
    /\ baseCalls = 2
    /\ baseSeen = {StrV(MOSAIC_SYSTEM_PROMPT)}
    /\ Returned("get_system_prompt_for_research")

\* C9: a call of the research, code or analysis function that does not pass
\* its required string ends in the error for a missing argument (TypeError)
\* and returns no text.
C9_MissingRequiredRaises ==
    (\/ fn = "get_system_prompt_for_research" /\ inputs.topic = Omitted
     \/ fn = "get_system_prompt_for_code" /\ inputs.task_description = Omitted
     \/ fn = "get_system_prompt_for_analysis" /\ inputs.context_description = Omitted)
    => /\ error = "TypeError"
       /\ result = NoResult

\* The research function was called without topic and raised.
C9_Witness ==
    /\ fn = "get_system_prompt_for_research"
    /\ inputs.topic = Omitted
    /\ inputs.document_type.kind = "str"
    /\ error = "TypeError"

\* Where the lines of the context addendum start (0: the line is not there)
TypeLinePos == Find(Addendum, <<"- **Context Type**: ">>)
LengthLinePos == Find(Addendum, <<"- **Context Length**: ">>)
StructureLinePos == Find(Addendum, <<"- **Structure**: ">>)
PreviewPos == Find(Addendum, <<"### Context Preview">>)
Strategy4Pos == Find(Addendum, RecommendationLine(4))
LengthStrategyPos ==
    LET ps == {Find(Addendum, RecommendationLine(k)) : k \in 1..3} \ {0}
    IN IF ps = {} THEN 0 ELSE CHOOSE p \in ps : \A q \in ps : p <= q

\* The positions of ps that are there come in the order of ps.
InOrder(ps) ==
    \A i, j \in DOMAIN ps : (i < j /\ ps[i] > 0 /\ ps[j] > 0) => ps[i] < ps[j]

\* C10 as the spec states it: the lines follow the order of the signature,
\* the Context Type line (and its Strategy 4 line) before the Context Length
\* line (and its recommendation), then Structure, then the preview.
C10_SignatureOrder ==
    Returned("get_system_prompt_with_context")
    => InOrder(<<TypeLinePos, Strategy4Pos, LengthLinePos, LengthStrategyPos,
                 StructureLinePos, PreviewPos>>)

\* C10, amended: the Context Length line (and its recommendation) comes
\* first, then the Context Type line (and its Strategy 4 line), then
\* Structure, then the preview, for every combination of parameters.
C10_CodeOrder ==
    Returned("get_system_prompt_with_context")
    => InOrder(<<LengthLinePos, LengthStrategyPos, TypeLinePos, Strategy4Pos,
                 StructureLinePos, PreviewPos>>)

\* A call with all four parameters and a recognized type returned; all six
\* lines are there.
C10_Witness ==
    /\ Returned("get_system_prompt_with_context")
    /\ LengthLinePos > 0 /\ LengthStrategyPos > 0
    /\ TypeLinePos > 0 /\ Strategy4Pos > 0
    /\ StructureLinePos > 0 /\ PreviewPos > 0

\* A parameter is supplied when the call passes a value other than None.
Supplied(v) == v.kind \notin {"omitted", "none"}

\* The tokens that only the preview block has
PreviewTokens == {"### Context Preview", CodeFence, "..."}

\* C11: in every supplied/omitted combination of the four parameters, the
\* addendum has the Context Length line and a length-based recommendation
\* only if context_length is supplied, the Context Type line and the
\* Strategy 4 line only if context_type is supplied, the Structure line only
\* if context_structure is supplied, the preview block only if
\* context_preview is supplied; each line of a supplied parameter is there.
C11_OmittedContributesNothing ==
    Returned("get_system_prompt_with_context")
    => /\ LengthLinePos > 0 <=> Supplied(inputs.context_length)
       /\ LengthStrategyPos > 0 <=> Supplied(inputs.context_length)
       /\ TypeLinePos > 0 <=> Supplied(inputs.context_type)
       /\ Strategy4Pos > 0 => Supplied(inputs.context_type)
       /\ StructureLinePos > 0 <=> Supplied(inputs.context_structure)
       /\ PreviewPos > 0 <=> Supplied(inputs.context_preview)
       /\ (\E i \in DOMAIN Addendum : Addendum[i] \in PreviewTokens)
            => Supplied(inputs.context_preview)

\* Only the preview was supplied (the structure passed as None): the preview
\* block is there and none of the three lines.
C11_Witness ==
    /\ Returned("get_system_prompt_with_context")
    /\ inputs.context_type = Omitted
    /\ inputs.context_length = Omitted
    /\ inputs.context_structure = None
    /\ Supplied(inputs.context_preview)
    /\ PreviewPos > 0
    /\ TypeLinePos = 0 /\ LengthLinePos = 0 /\ StructureLinePos = 0

\* The first min(500, length) characters of the preview
PreviewHead ==
    LET p == inputs.context_preview.chars
    IN [i \in 1..(IF Len(p) < 500 THEN Len(p) ELSE 500) |-> p[i]]

\* C12: with a context_preview string, the preview block holds exactly the
\* first min(500, length) characters of the preview between its fence line
\* and its "..." line: a preview of at most 500 characters whole, none of
\* the characters from position 501 on.
C12_PreviewFirst500 ==
    (Returned("get_system_prompt_with_context") /\ inputs.context_preview.kind = "str")
    => /\ Contains(Addendum, <<"### Context Preview", "\n\n", CodeFence, "\n">>
                                \o PreviewHead \o <<"\n", "...", "\n", CodeFence, "\n">>)
       /\ Len(inputs.context_preview.chars) <= 500
            => Contains(Addendum, <<CodeFence, "\n">> \o inputs.context_preview.chars
                                    \o <<"\n", "...">>)
       /\ \A i \in DOMAIN Addendum : Addendum[i] # "z"

\* A preview of 501 characters was passed and cut.
C12_Witness ==
    /\ Returned("get_system_prompt_with_context")
    /\ inputs.context_preview.kind = "str"
    /\ Len(inputs.context_preview.chars) = 501
    /\ inputs.context_preview.chars[501] = "z"
    /\ PreviewPos > 0

NoArguments ==
    /\ inputs.context_type = Omitted
    /\ inputs.context_length = Omitted
    /\ inputs.context_structure = Omitted
    /\ inputs.context_preview = Omitted

\* C13: get_system_prompt_with_context called with no arguments returns the
\* text of get_system_prompt() followed by the Current Task Context heading
\* and nothing else.
C13_NoArgumentsHeaderOnly ==
    (fn = "get_system_prompt_with_context" /\ NoArguments)
    => /\ Returned("get_system_prompt_with_context")
       /\ result.chars = MOSAIC_SYSTEM_PROMPT
                            \o <<"\n\n", "## Current Task Context", "\n\n">>
       /\ \A b \in baseSeen :
            result.chars = b.chars \o <<"\n\n", "## Current Task Context", "\n\n">>

\* get_system_prompt was called, then get_system_prompt_with_context with no
\* arguments.
C13_Witness ==
    /\ Returned("get_system_prompt_with_context")
    /\ NoArguments
    /\ baseSeen # {}

\* The addendum the latest call generates from its arguments
GeneratedAddendum ==
    CASE fn = "get_system_prompt_with_context" ->
            ContextInfo(Default(inputs.context_type, None),
                        Default(inputs.context_length, None),
                        Default(inputs.context_structure, None),
                        Default(inputs.context_preview, None))
      [] fn = "get_system_prompt_for_research" ->
            research_addendum(inputs.topic,
                              Default(inputs.document_type, DefaultDocumentType))
      [] fn = "get_system_prompt_for_code" -> code_addendum(inputs.task_description)
      [] fn = "get_system_prompt_for_analysis" ->
            analysis_addendum(inputs.context_description)

Builders == {"get_system_prompt_with_context", "get_system_prompt_for_research",
             "get_system_prompt_for_code", "get_system_prompt_for_analysis"}

\* C16: for every call of a builder function that returns, the length of the
\* returned text is the Template's length plus the length of the addendum
\* generated for the call, so it is never below the Template's length.
C16_LengthIsSum ==
    (fn \in Builders /\ error = "none")
    => /\ result.kind = "str"
       /\ Len(result.chars) = Len(MOSAIC_SYSTEM_PROMPT) + Len(GeneratedAddendum)
       /\ Len(result.chars) >= Len(MOSAIC_SYSTEM_PROMPT)

\* The code builder returned for an empty description.
C16_Witness ==
    /\ Returned("get_system_prompt_for_code")
    /\ inputs.task_description = StrV(<<>>)
    /\ Len(result.chars) > Len(MOSAIC_SYSTEM_PROMPT)

\* C17: after every sequence of calls of the five functions, calls that
\* raise included, the module global MOSAIC_SYSTEM_PROMPT is what it was at
\* initialization.
C17_TemplateNeverChanges == template = MOSAIC_SYSTEM_PROMPT

\* A call raised after get_system_prompt had been called.
C17_Witness ==
    /\ error = "TypeError"
    /\ baseCalls > 0
    /\ template = MOSAIC_SYSTEM_PROMPT

\* The three digits of m, 0 <= m < 1000, with leading zeros
ThreeDigits(m) ==
    <<DigitChar[(m \div 100) + 1], DigitChar[((m \div 10) % 10) + 1],
      DigitChar[(m % 10) + 1]>>

\* The decimal digits of m, 0 <= m < 1000, without leading zeros
UpToThreeDigits(m) ==
    IF m < 10 THEN <<DigitChar[m + 1]>>
    ELSE IF m < 100 THEN <<DigitChar[(m \div 10) + 1], DigitChar[(m % 10) + 1]>>
    ELSE ThreeDigits(m)

\* n >= 0 in decimal with a comma between each group of three digits
RECURSIVE WithCommas(_)
WithCommas(n) ==
    IF n < 1000 THEN UpToThreeDigits(n)
    ELSE WithCommas(n \div 1000) \o <<",">> \o ThreeDigits(n % 1000)

\* C20: with a context_length, the addendum has the line "- **Context
\* Length**: N characters" where N is the value in decimal with a comma
\* between each group of three digits (a minus sign first when negative):
\* 100000 is "100,000 characters", a value below 1000 has no comma.
C20_LengthWithCommas ==
    (Returned("get_system_prompt_with_context") /\ inputs.context_length.kind = "int")
    => LET n == inputs.context_length.val
           shown == IF n < 0 THEN <<"-">> \o WithCommas(0 - n) ELSE WithCommas(n)
       IN /\ Contains(Addendum, <<"- **Context Length**: ">> \o shown
                                    \o <<" characters", "\n">>)
          /\ n = 100000
                => Contains(Addendum, <<"1", "0", "0", ",", "0", "0", "0", " characters">>)
          /\ (0 <= n /\ n < 1000)
                => \A i \in DOMAIN Addendum : Addendum[i] # ","

\* 100000 was shown as 100,000.
C20_Witness ==
    /\ Returned("get_system_prompt_with_context")
    /\ inputs.context_length = IntV(100000)
    /\ Contains(Addendum, <<"1", "0", "0", ",", "0", "0", "0", " characters">>)

\* The latest call did not pass a parameter that has no default.
RequiredOmitted ==
    \/ fn = "get_system_prompt_for_research" /\ inputs.topic = Omitted
    \/ fn = "get_system_prompt_for_code" /\ inputs.task_description = Omitted
    \/ fn = "get_system_prompt_for_analysis" /\ inputs.context_description = Omitted

\* The arguments of the latest call are of the documented types (or None).
DocumentedTypes ==
    CASE fn = "get_system_prompt_with_context" -> DocumentedContextTypes
      [] fn = "get_system_prompt_for_research" ->
            /\ inputs.topic.kind \in {"str", "none", "omitted"}
            /\ inputs.document_type.kind \in {"str", "none", "omitted"}
      [] fn = "get_system_prompt_for_code" ->
            inputs.task_description.kind \in {"str", "none", "omitted"}
      [] fn = "get_system_prompt_for_analysis" ->
            inputs.context_description.kind \in {"str", "none", "omitted"}
      [] OTHER -> TRUE

\* C15 as the spec states it: the only error is the one for a required
\* parameter that is not passed; every call that passes the required
\* parameters returns text.
C15_OnlyMissingArgumentFails ==
    fn # "none"
    => /\ error \in {"none", "TypeError"}
       /\ error = "TypeError" <=> RequiredOmitted
       /\ error = "none" => result.kind = "str"

\* C15, amended: for arguments of the documented types (a string or None
\* for the string parameters, an integer or None for context_length) the
\* only error is the one for a required parameter that is not passed; every
\* such call that passes the required parameters returns text, with empty
\* strings, with large lengths and with unrecognized types alike.
C15_DocumentedTypesOnlyMissingArgumentFails ==
    (fn # "none" /\ DocumentedTypes)
    => /\ error \in {"none", "TypeError"}
       /\ error = "TypeError" <=> RequiredOmitted
       /\ error = "none" => result.kind = "str"

\* An empty context_type with the largest length returned.
C15_Witness ==
    /\ Returned("get_system_prompt_with_context")
    /\ inputs.context_type = StrV(<<>>)
    /\ inputs.context_length = IntV(2147483647)
    /\ TypeLinePos > 0
    /\ Strategy4Pos = 0

\* The calls of the history that are get_system_prompt_for_research calls
ResearchCalls == {c \in history.calls : c.fn = "get_system_prompt_for_research"}

\* C14: get_system_prompt_for_research called with the topic only returns
\* the same text as the call with the same topic and document_type
\* "research paper"; a call that passes a topic and no document_type does
\* not fail.
C14_DefaultDocumentType ==
    \A a \in ResearchCalls :
        a.args[2] = Omitted
        => /\ a.args[1] # Omitted => (a.out.error = "none" /\ a.out.value.kind = "str")
           /\ \A b \in ResearchCalls :
                (b.args[1] = a.args[1]
                    /\ b.args[2] = ExplicitResearchPaper)
                => b.out = a.out

\* Both calls were made with the topic {a and both returned.
C14_Witness ==
    /\ \E a \in ResearchCalls :
        /\ a.args = <<StrV(<<"{", "a">>), Omitted>>
        /\ a.out.error = "none"
    /\ \E b \in ResearchCalls :
        /\ b.args[1] = StrV(<<"{", "a">>)
        /\ b.args[2] = ExplicitResearchPaper
        /\ b.out.error = "none"

\* C18: in every sequence of calls, two calls of the same function with
\* equal arguments have the same outcome, whatever calls were made before
\* or between them.
C18_SameCallSameOutcome ==
    \A a, b \in history.calls :
        (a.fn = b.fn /\ a.args = b.args) => a.out = b.out

\* The analysis function was called again after a call of another function.
C18_Witness ==
    /\ history.repeated
    /\ Returned("get_system_prompt_for_analysis")
    /\ Cardinality({c.fn : c \in history.calls}) > 2

\* The outcome of thread t's call when nothing else runs
Alone(t) ==
    CASE threads[t].fn = "get_system_prompt" -> get_system_prompt
      [] threads[t].fn = "get_system_prompt_with_context" ->
            get_system_prompt_with_context(threads[t].args.context_type,
                                           threads[t].args.context_length,
                                           threads[t].args.context_structure,
                                           threads[t].args.context_preview)
      [] threads[t].fn = "get_system_prompt_for_research" ->
            get_system_prompt_for_research(threads[t].args.topic,
                                           threads[t].args.document_type)
      [] threads[t].fn = "get_system_prompt_for_code" ->
            get_system_prompt_for_code(threads[t].args.task_description)
      [] threads[t].fn = "get_system_prompt_for_analysis" ->
            get_system_prompt_for_analysis(threads[t].args.context_description)

\* C19: with callers running the five functions concurrently and no lock,
\* in every interleaving each finished call has the outcome it has when run
\* alone, and the template is the one the module was loaded with.
C19_ConcurrentAsAlone ==
    /\ template = MOSAIC_SYSTEM_PROMPT
    /\ \A t \in DOMAIN threads :
        threads[t].pc = "done" => threads[t].out = Alone(t)

\* Two calls that overlapped have both returned text: one built a context
\* addendum, the other is a call of another function.
C19_Witness ==
    \E t, u \in DOMAIN threads :
        /\ t # u
        /\ threads[t].pc = "done" /\ threads[u].pc = "done"
        /\ threads[t].overlapped /\ threads[u].overlapped
        /\ threads[t].fn = "get_system_prompt_with_context"
        /\ threads[u].fn # threads[t].fn
        /\ threads[t].out.error = "none" /\ threads[u].out.error = "none"
        /\ Len(threads[t].local) > 3

\* The last n tokens of text are pat.
EndsWith(text, pat) ==
    /\ Len(text) >= Len(pat)
    /\ SubSeq(text, Len(text) - Len(pat) + 1, Len(text)) = pat

\* C21: every call of the five functions that returns, returns a text that
\* begins with the whole template; what the call adds comes after the last
\* token of the template and is the addendum built from the arguments.
C21_TemplateIsPrefix ==
    (fn \in Functions /\ error = "none")
    => /\ result.kind = "str"
       /\ Len(result.chars) >= Len(MOSAIC_SYSTEM_PROMPT)
       /\ SubSeq(result.chars, 1, Len(MOSAIC_SYSTEM_PROMPT)) = MOSAIC_SYSTEM_PROMPT
       /\ fn = "get_system_prompt" => Addendum = <<>>
       /\ fn \in Builders => Addendum = GeneratedAddendum

\* The code function returned the template with something after it.
C21_Witness ==
    /\ Returned("get_system_prompt_for_code")
    /\ inputs.task_description = StrV(<<"a", "{">>)
    /\ StartsWith(result.chars, MOSAIC_SYSTEM_PROMPT)
    /\ Len(result.chars) > Len(MOSAIC_SYSTEM_PROMPT)

\* C22: get_system_prompt_with_context writes the line or block of a
\* parameter exactly when the parameter is given and is not None, whatever
\* its truth value: context_length = 0 gives the Context Length line with
\* the Strategy 1 recommendation, an empty context_type, context_structure
\* or context_preview gives its line or block with nothing in the place of
\* the value.
C22_NoneNotTruthiness ==
    (fn = "get_system_prompt_with_context" /\ DocumentedContextTypes)
    => /\ Returned("get_system_prompt_with_context")
       /\ LengthLinePos > 0 <=> Supplied(inputs.context_length)
       /\ TypeLinePos > 0 <=> Supplied(inputs.context_type)
       /\ StructureLinePos > 0 <=> Supplied(inputs.context_structure)
       /\ PreviewPos > 0 <=> Supplied(inputs.context_preview)
       /\ inputs.context_length = IntV(0)
            => Contains(Addendum, <<"- **Context Length**: ", "0", " characters", "\n">>
                                    \o RecommendationLine(1))
       /\ inputs.context_type = StrV(<<>>)
            => Contains(Addendum, <<"- **Context Type**: ", "\n">>)
       /\ inputs.context_structure = StrV(<<>>)
            => Contains(Addendum, <<"- **Structure**: ", "\n">>)
       /\ inputs.context_preview = StrV(<<>>)
            => Contains(Addendum, <<"### Context Preview", "\n\n", CodeFence, "\n",
                                    "\n", "...", "\n", CodeFence, "\n">>)

\* Length 0 with an empty type returned both lines.
C22_Witness ==
    /\ Returned("get_system_prompt_with_context")
    /\ inputs.context_length = IntV(0)
    /\ inputs.context_type = StrV(<<>>)
    /\ Contains(Addendum, RecommendationLine(1))
    /\ Contains(Addendum, <<"- **Context Type**: ", "\n">>)

\* C23: with a context_preview string of any length, the returned text ends
\* with the shown preview, a line "..." and the closing fence line; the
\* "..." line is there when the preview has at most 500 characters too.
C23_MarkerAlways ==
    (Returned("get_system_prompt_with_context") /\ inputs.context_preview.kind = "str")
    => /\ EndsWith(Addendum, PreviewHead \o <<"\n", "...", "\n", CodeFence, "\n">>)
       /\ Find(Addendum, <<"...">>) > PreviewPos

\* A preview one character short of the limit was shown with the marker.
C23_Witness ==
    /\ Returned("get_system_prompt_with_context")
    /\ inputs.context_preview.kind = "str"
    /\ Len(inputs.context_preview.chars) = 499
    /\ EndsWith(Addendum, <<"b", "\n", "...", "\n", CodeFence, "\n">>)

\* C24: every negative context_length is accepted: the call returns, the
\* length is shown with its minus sign, and the recommendation is that of
\* Strategy 1 and no other length recommendation.
C24_NegativeLengthAccepted ==
    (fn = "get_system_prompt_with_context"
        /\ DocumentedContextTypes
        /\ inputs.context_length.kind = "int"
        /\ inputs.context_length.val < 0)
    => /\ Returned("get_system_prompt_with_context")
       /\ Contains(Addendum, <<"- **Context Length**: ", "-">>)
       /\ Contains(Addendum, <<" characters", "\n">> \o RecommendationLine(1))
       /\ ~Contains(Addendum, RecommendationLine(2))
       /\ ~Contains(Addendum, RecommendationLine(3))

\* -1000 was shown as -1,000 with the Strategy 1 line.
C24_Witness ==
    /\ Returned("get_system_prompt_with_context")
    /\ inputs.context_length = IntV(-1000)
    /\ Contains(Addendum, <<"-", "1", ",", "0", "0", "0", " characters", "\n">>
                            \o RecommendationLine(1))

\* The arguments of the latest call with every None taken for not passed
NoneAsOmitted == [k \in DOMAIN inputs |-> IF inputs[k] = None THEN Omitted ELSE inputs[k]]

\* The arguments of the latest call with None passed for every parameter
\* that was not passed
OmittedAsNone == [k \in DOMAIN inputs |-> IF inputs[k] = Omitted THEN None ELSE inputs[k]]

\* The outcome of get_system_prompt_with_context on the argument list a
ContextOutcome(a) ==
    get_system_prompt_with_context(a.context_type, a.context_length,
                                   a.context_structure, a.context_preview)

\* The outcome of the latest call
Outcome == [error |-> error, value |-> result]

\* C25: the research, code and analysis functions fail exactly when their
\* required argument is not passed; with None passed for it they return
\* the addendum of the string "None"; get_system_prompt_with_context has
\* the same outcome with None passed for a parameter as with the parameter
\* not passed.
C25_NoneVersusOmitted ==
    /\ fn \in Builders \ {"get_system_prompt_with_context"}
        => (error # "none" <=> RequiredOmitted)
    /\ (fn = "get_system_prompt_for_research" /\ inputs.topic = None)
        => /\ Returned("get_system_prompt_for_research")
           /\ Addendum = ResearchText(<<"N", "o", "n", "e">>,
                            Format(Default(inputs.document_type, DefaultDocumentType)))
    /\ (fn = "get_system_prompt_for_code" /\ inputs.task_description = None)
        => /\ Returned("get_system_prompt_for_code")
           /\ Addendum = CodeText(<<"N", "o", "n", "e">>)
    /\ (fn = "get_system_prompt_for_analysis" /\ inputs.context_description = None)
        => /\ Returned("get_system_prompt_for_analysis")
           /\ Addendum = AnalysisText(<<"N", "o", "n", "e">>)
    /\ fn = "get_system_prompt_with_context"
        => /\ Outcome = ContextOutcome(NoneAsOmitted)
           /\ Outcome = ContextOutcome(OmittedAsNone)
           /\ inputs.context_structure = None => StructureLinePos = 0

\* The analysis function was called with None and wrote "None".
C25_Witness ==
    /\ Returned("get_system_prompt_for_analysis")
    /\ inputs.context_description = None
    /\ Contains(Addendum, <<"N", "o", "n", "e">>)

====
